---- MODULE Spec2Model ----
(***************************************************************************)
(* Model of gopensky (src/gopensky.go): the request encoder                *)
(* (serializeQueryParams, formatDegrees), the state decoder                *)
(* (deserializeStates, deserializeState and the three null-tolerant        *)
(* helpers) and api.Get, which joins them around one HTTP GET.             *)
(*                                                                         *)
(* Representation.                                                         *)
(*  - A Go string is a sequence of one-character strings, so that          *)
(*    formatting, escaping and joining are computed character by           *)
(*    character.                                                           *)
(*  - A pointer is a sequence of length 0 (nil) or 1.                      *)
(*  - A float64 is a record [c, n]: c = "fin" and n counts units of 1/32   *)
(*    (every such value is exactly representable in binary, so its decimal *)
(*    expansion n*3125/100000 is exact), or c is "nan", "pinf", "ninf".    *)
(*  - An interface{} value is a record [t, v] tagged with its dynamic      *)
(*    type: "nil", "bool", "float64", "string", "slice" ([]interface{}),   *)
(*    "map" (map[string]interface{}) and "ints" ([]int).                   *)
(*  - A call that runs into a failing type assertion or an index out of    *)
(*    range yields Panic instead of a value.                               *)
(***************************************************************************)
EXTENDS Integers, Sequences, FiniteSets, TLC

VARIABLES pc, req, rawQuery, url, transport, decoded, ret, vec, rawStates, out

vars == <<pc, req, rawQuery, url, transport, decoded, ret, vec, rawStates, out>>

(***************************************************************************)
(* Bounds of the model.                                                    *)
(***************************************************************************)
MaxIcao24 == 2
MaxRows == 2

(***************************************************************************)
(* Pointers and strings.                                                   *)
(***************************************************************************)
Nil == <<>>
Ptr(x) == <<x>>
Deref(p) == p[1]

\* The printable ASCII characters, from code 32 (space) to code 126 (~); the
\* three that no string of the model uses are written by name.
Ascii ==
  <<" ", "!", "dquote", "#", "$", "%", "&", "'", "(", ")", "*", "+", ",", "-", ".", "/",
    "0", "1", "2", "3", "4", "5", "6", "7", "8", "9", ":", ";", "<", "=", ">", "?",
    "@", "A", "B", "C", "D", "E", "F", "G", "H", "I", "J", "K", "L", "M", "N", "O",
    "P", "Q", "R", "S", "T", "U", "V", "W", "X", "Y", "Z", "[", "backslash", "]", "^", "_",
    "backtick", "a", "b", "c", "d", "e", "f", "g", "h", "i", "j", "k", "l", "m", "n", "o",
    "p", "q", "r", "s", "t", "u", "v", "w", "x", "y", "z", "{", "|", "}", "~">>

AsciiCode == [c \in {Ascii[i] : i \in 1..Len(Ascii)} |-> 31 + (CHOOSE i \in 1..Len(Ascii) : Ascii[i] = c)]

CharCode(c) == AsciiCode[c]

Digits == <<"0", "1", "2", "3", "4", "5", "6", "7", "8", "9">>

upperhex == <<"0", "1", "2", "3", "4", "5", "6", "7", "8", "9", "A", "B", "C", "D", "E", "F">>

RECURSIVE Join(_)
Join(ss) == IF ss = <<>> THEN <<>> ELSE Head(ss) \o Join(Tail(ss))

\* Byte-wise order of Go strings (the order slices.Sort gives the keys).
RECURSIVE StrLess(_, _)
StrLess(a, b) ==
  IF b = <<>> THEN FALSE
  ELSE IF a = <<>> THEN TRUE
  ELSE IF Head(a) # Head(b) THEN CharCode(Head(a)) < CharCode(Head(b))
  ELSE StrLess(Tail(a), Tail(b))

RECURSIVE SortKeys(_)
SortKeys(S) ==
  IF S = {} THEN <<>>
  ELSE LET k == CHOOSE x \in S : \A y \in S \ {x} : StrLess(x, y)
       IN <<k>> \o SortKeys(S \ {k})

(***************************************************************************)
(* strconv.Itoa, as called at gopensky.go:135.                             *)
(***************************************************************************)
RECURSIVE UDecimal(_)
UDecimal(n) ==
  IF n < 10 THEN <<Digits[n + 1]>>
  ELSE UDecimal(n \div 10) \o <<Digits[(n % 10) + 1]>>

Itoa(n) == IF n < 0 THEN <<"-">> \o UDecimal(0 - n) ELSE UDecimal(n)

(***************************************************************************)
(* float64 values.                                                         *)
(***************************************************************************)
F(n) == [c |-> "fin", n |-> n]
NaN == [c |-> "nan", n |-> 0]
PosInf == [c |-> "pinf", n |-> 0]
NegInf == [c |-> "ninf", n |-> 0]

Abs(n) == IF n < 0 THEN 0 - n ELSE n

\* n zero-padded on the left to w digits.
RECURSIVE PadDecimal(_, _)
PadDecimal(n, w) ==
  IF w = 0 THEN <<>> ELSE PadDecimal(n \div 10, w - 1) \o <<Digits[(n % 10) + 1]>>

\* formatDegrees whose fraction is not padded with zeros.
formatDegrees_NoPad(degrees) ==
  CASE degrees.c = "nan" -> <<"N", "a", "N">>
    [] degrees.c = "pinf" -> <<"+", "I", "n", "f">>
    [] degrees.c = "ninf" -> <<"-", "I", "n", "f">>
    [] OTHER ->
       LET m == Abs(degrees.n) * 3125
           q == m \div 10
           r == m % 10
           k == IF r > 5 \/ (r = 5 /\ q % 2 = 1) THEN q + 1 ELSE q
       IN (IF degrees.n < 0 THEN <<"-">> ELSE <<>>)
            \o UDecimal(k \div 10000) \o <<".">> \o UDecimal(k % 10000)

\* fmt.Sprintf("%.4f", degrees).  A finite value n/32 has the exact decimal
\* expansion n*3125 / 10^5; the fifth fractional digit is rounded away, an
\* exact tie going to the even neighbour.  NaN and the infinities are
\* written by name, the positive infinity with its sign.
formatDegrees(degrees) ==
  CASE degrees.c = "nan" -> <<"N", "a", "N">>
    [] degrees.c = "pinf" -> <<"+", "I", "n", "f">>
    [] degrees.c = "ninf" -> <<"-", "I", "n", "f">>
    [] OTHER ->
       LET m == Abs(degrees.n) * 3125
           q == m \div 10
           r == m % 10
           k == IF r > 5 \/ (r = 5 /\ q % 2 = 1) THEN q + 1 ELSE q
       IN (IF degrees.n < 0 THEN <<"-">> ELSE <<>>)
            \o UDecimal(k \div 10000) \o <<".">> \o PadDecimal(k % 10000, 4)

(***************************************************************************)
(* net/url: QueryEscape and Values (Set, Add, Encode), as called at        *)
(* gopensky.go:132-149.                                                    *)
(***************************************************************************)
IsUnreserved(c) ==
  \/ CharCode(c) \in 48..57
  \/ CharCode(c) \in 65..90
  \/ CharCode(c) \in 97..122
  \/ c \in {"-", "_", ".", "~"}

EscapeChar(c) ==
  IF IsUnreserved(c) THEN <<c>>
  ELSE IF c = " " THEN <<"+">>
  ELSE <<"%", upperhex[(CharCode(c) \div 16) + 1], upperhex[(CharCode(c) % 16) + 1]>>

\* QueryEscape that lets every character through.
QueryEscape_Raw(s) == s

QueryEscape(s) == Join([i \in 1..Len(s) |-> EscapeChar(s[i])])

\* url.Values is a map from key to the list of its values.
EmptyValues == [k \in {} |-> <<>>]

ValuesSet(v, key, value) ==
  [k \in DOMAIN v \cup {key} |-> IF k = key THEN <<value>> ELSE v[k]]

\* Add that replaces the values of the key, as Set does.
ValuesAdd_Replace(v, key, value) ==
  [k \in DOMAIN v \cup {key} |-> IF k = key THEN <<value>> ELSE v[k]]

ValuesAdd(v, key, value) ==
  [k \in DOMAIN v \cup {key} |->
     IF k = key THEN (IF key \in DOMAIN v THEN Append(v[key], value) ELSE <<value>>)
     ELSE v[k]]

\* The parameters key=value of one key, in the order of its values.
EncodeKey(k, vs) == [i \in 1..Len(vs) |-> QueryEscape(k) \o <<"=">> \o QueryEscape(vs[i])]

RECURSIVE JoinAmp(_)
JoinAmp(ps) ==
  IF ps = <<>> THEN <<>>
  ELSE IF Len(ps) = 1 THEN ps[1]
  ELSE ps[1] \o <<"&">> \o JoinAmp(Tail(ps))

\* Values.Encode: keys in sorted order, the values of a key in insertion order.
ValuesEncode(v) ==
  LET keys == SortKeys(DOMAIN v)
  IN JoinAmp(Join([i \in 1..Len(keys) |-> EncodeKey(keys[i], v[keys[i]])]))

(***************************************************************************)
(* The request encoder.                                                    *)
(***************************************************************************)
KeyTime == <<"t", "i", "m", "e">>
KeyIcao24 == <<"i", "c", "a", "o", "2", "4">>
KeyLamin == <<"l", "a", "m", "i", "n">>
KeyLomin == <<"l", "o", "m", "i", "n">>
KeyLamax == <<"l", "a", "m", "a", "x">>
KeyLomax == <<"l", "o", "m", "a", "x">>

RECURSIVE AddAll(_, _, _)
AddAll(v, key, values) ==
  IF values = <<>> THEN v
  ELSE AddAll(ValuesAdd(v, key, Head(values)), key, Tail(values))

\* serializeQueryParams without the test of Time against zero.
serializeQueryParams_AlwaysTime(r) ==
  LET v1 == ValuesSet(EmptyValues, KeyTime, Itoa(r.Time))
      v2 == AddAll(v1, KeyIcao24, r.Icao24.elems)
      v3 == IF r.Bbox # Nil
            THEN LET b == Deref(r.Bbox)
                     w1 == ValuesSet(v2, KeyLamin, formatDegrees(b.Lamin))
                     w2 == ValuesSet(w1, KeyLomin, formatDegrees(b.Lomin))
                     w3 == ValuesSet(w2, KeyLamax, formatDegrees(b.Lamax))
                 IN ValuesSet(w3, KeyLomax, formatDegrees(b.Lomax))
            ELSE v2
  IN ValuesEncode(v3)

serializeQueryParams(r) ==
  LET v1 == IF r.Time # 0 THEN ValuesSet(EmptyValues, KeyTime, Itoa(r.Time))
            ELSE EmptyValues
      v2 == AddAll(v1, KeyIcao24, r.Icao24.elems)
      v3 == IF r.Bbox # Nil
            THEN LET b == Deref(r.Bbox)
                     w1 == ValuesSet(v2, KeyLamin, formatDegrees(b.Lamin))
                     w2 == ValuesSet(w1, KeyLomin, formatDegrees(b.Lomin))
                     w3 == ValuesSet(w2, KeyLamax, formatDegrees(b.Lamax))
                 IN ValuesSet(w3, KeyLomax, formatDegrees(b.Lomax))
            ELSE v2
  IN ValuesEncode(v3)

(***************************************************************************)
(* Inputs of the encoder.                                                  *)
(***************************************************************************)
TimeValues == {0, -12, 1458564121}

\* A transponder address, and a string whose characters all need escaping.
Icao24Values == {<<"a", "b", "c", "9", "f", "3">>, <<"&", "t", "i", "m", "e", "=", "7", " ", "+">>}

DegreeValues == {F(48), F(-33), F(3), NaN, PosInf, NegInf}

NilSlice == [isNil |-> TRUE, elems |-> <<>>]
Slice(s) == [isNil |-> FALSE, elems |-> s]

SeqsUpTo(S, n) == UNION {[1..k -> S] : k \in 0..n}

Icao24Lists == {NilSlice} \cup {Slice(s) : s \in SeqsUpTo(Icao24Values, MaxIcao24)}

Bboxes == [Lamin : DegreeValues, Lomin : DegreeValues, Lamax : DegreeValues, Lomax : DegreeValues]

Requests == [Time : TimeValues, Icao24 : Icao24Lists, Bbox : {Nil} \cup {Ptr(b) : b \in Bboxes}]

Unset == <<"unset">>

(***************************************************************************)
(* Specification of the encoder alone: a Request is drawn, and             *)
(* serializeQueryParams is applied to it.                                  *)
(***************************************************************************)
InitQuery ==
  /\ pc = "serializeQueryParams"
  /\ req \in {Ptr(r) : r \in Requests}
  /\ rawQuery = Unset
  /\ url = Unset
  /\ transport = Nil
  /\ decoded = FALSE
  /\ ret = Nil
  /\ vec = Nil
  /\ rawStates = Nil
  /\ out = Nil

SerializeQueryParams ==
  /\ pc = "serializeQueryParams"
  /\ rawQuery' = serializeQueryParams(Deref(req))
  /\ pc' = "done"
  /\ UNCHANGED <<req, url, transport, decoded, ret, vec, rawStates, out>>

NextQuery == SerializeQueryParams

SpecQuery == InitQuery /\ [][NextQuery]_vars

(***************************************************************************)
(* interface{} values and type assertions.                                 *)
(***************************************************************************)
NilV == [t |-> "nil", b |-> FALSE, f |-> F(0), s |-> <<>>, a |-> <<>>, i |-> <<>>]
BoolV(x) == [NilV EXCEPT !.t = "bool", !.b = x]
NumV(n) == [NilV EXCEPT !.t = "float64", !.f = F(n)]
StrV(x) == [NilV EXCEPT !.t = "string", !.s = x]
ArrV(x) == [NilV EXCEPT !.t = "slice", !.a = x]
IntsV(x) == [NilV EXCEPT !.t = "ints", !.i = x]

\* The outcome of an expression: a value, or a run-time panic.
Panic == [panic |-> TRUE, val |-> <<>>]
Ok(x) == [panic |-> FALSE, val |-> <<x>>]
Val(r) == r.val[1]

Bind(r, Op(_)) == IF r.panic THEN Panic ELSE Op(Val(r))

\* vec[i], with Go's zero-based index.
Index(v, i) == IF i < Len(v) THEN Ok(v[i + 1]) ELSE Panic

\* x.(string), x.(float64), x.(bool), x.([]interface{}), x.([]int)
AssertString(x) == IF x.t = "string" THEN Ok(x.s) ELSE Panic
AssertFloat64(x) == IF x.t = "float64" THEN Ok(x.f) ELSE Panic
AssertBool(x) == IF x.t = "bool" THEN Ok(x.b) ELSE Panic
AssertSlice(x) == IF x.t = "slice" THEN Ok(x.a) ELSE Panic
AssertInts(x) == IF x.t = "ints" THEN Ok(x.i) ELSE Panic

\* int(f) for a finite f = n/32: the fraction is discarded, towards zero.
\* (Every number of the model is within the range of int.)
ToInt(f) == IF f.n < 0 THEN 0 - ((0 - f.n) \div 32) ELSE f.n \div 32

IntOf(r) == IF r.panic THEN Panic ELSE Ok(ToInt(Val(r)))

(***************************************************************************)
(* The state decoder.                                                      *)
(***************************************************************************)
deserializeIntSlice(slice) == IF slice.t = "nil" THEN Ok(<<>>) ELSE AssertInts(slice)

deserializeString(str) == IF str.t = "nil" THEN Ok(<<>>) ELSE AssertString(str)

deserializeFloat64(f64) == IF f64.t = "nil" THEN Ok(F(0)) ELSE AssertFloat64(f64)

deserializeState(state) ==
  LET a == AssertSlice(state)
  IN IF a.panic THEN Panic
     ELSE LET v == Val(a)
              fs == [Icao24         |-> Bind(Index(v, 0), AssertString),
                     Callsign       |-> Bind(Index(v, 1), deserializeString),
                     OriginCountry  |-> Bind(Index(v, 2), AssertString),
                     TimePosition   |-> IntOf(Bind(Index(v, 3), deserializeFloat64)),
                     LastContact    |-> IntOf(Bind(Index(v, 4), AssertFloat64)),
                     Longitude      |-> Bind(Index(v, 5), deserializeFloat64),
                     Latitude       |-> Bind(Index(v, 6), deserializeFloat64),
                     BaroAltitude   |-> Bind(Index(v, 7), deserializeFloat64),
                     OnGround       |-> Bind(Index(v, 8), AssertBool),
                     Velocity       |-> Bind(Index(v, 9), deserializeFloat64),
                     TrueTrack      |-> Bind(Index(v, 10), deserializeFloat64),
                     VerticalRate   |-> Bind(Index(v, 11), deserializeFloat64),
                     Sensors        |-> Bind(Index(v, 12), deserializeIntSlice),
                     GeoAltitude    |-> Bind(Index(v, 13), deserializeFloat64),
                     Squawk         |-> Bind(Index(v, 14), deserializeString),
                     Spi            |-> Bind(Index(v, 15), AssertBool),
                     PositionSource |-> IntOf(Bind(Index(v, 16), AssertFloat64))]
          IN IF \E k \in DOMAIN fs : fs[k].panic THEN Panic
             ELSE Ok([k \in DOMAIN fs |-> Val(fs[k])])

deserializeStates(rows) ==
  LET rs == [i \in 1..Len(rows) |-> deserializeState(rows[i])]
  IN IF \E i \in 1..Len(rows) : rs[i].panic THEN Panic
     ELSE Ok([i \in 1..Len(rows) |-> Val(rs[i])])

(***************************************************************************)
(* Inputs of the decoder.  SampleVec is a state vector with every position *)
(* present; each position holds a value of its own so that a field read    *)
(* from the wrong position shows.                                          *)
(***************************************************************************)
SampleSensors == ArrV(<<NumV(32), NumV(96)>>)

SampleVec ==
  <<StrV(<<"a", "b", "c", "1", "2", "3">>),
    StrV(<<"D", "L", "H", "9">>),
    StrV(<<"G", "e", "r", "m", "a", "n", "y">>),
    NumV(48), NumV(-80), NumV(112), NumV(144), NumV(176),
    BoolV(FALSE),
    NumV(208), NumV(240), NumV(272),
    SampleSensors,
    NumV(304),
    StrV(<<"7", "0", "0", "0">>),
    BoolV(TRUE),
    NumV(64)>>

\* Zero-based positions, as in the wire format.
RequiredPositions == {0, 2, 4, 8, 15, 16}
NullablePositions == {1, 3, 5, 6, 7, 9, 10, 11, 12, 13, 14}

VecLen == 17

\* SampleVec with the positions of N set to null and the given sensors.
VecWith(N, sensors) ==
  [i \in 1..VecLen |-> IF (i - 1) \in N THEN NilV
                       ELSE IF i - 1 = 12 THEN sensors
                       ELSE SampleVec[i]]

SensorsValues == {NilV, ArrV(<<>>), SampleSensors, IntsV(<<1, 3>>)}

WellFormedVecs ==
  {ArrV(VecWith(N, x)) : N \in SUBSET (NullablePositions \ {12}), x \in SensorsValues}

\* A value of another type than the one at position p of SampleVec.
WrongTyped(p) == IF SampleVec[p + 1].t = "string" THEN NumV(32) ELSE StrV(<<"x">>)

MalformedVecs ==
  {ArrV(SubSeq(VecWith({12}, NilV), 1, k)) : k \in 0..(VecLen - 1)}
    \cup {ArrV([VecWith({12}, NilV) EXCEPT ![p + 1] = NilV]) : p \in RequiredPositions}
    \cup {ArrV([VecWith({12}, NilV) EXCEPT ![p + 1] = WrongTyped(p)]) : p \in 0..(VecLen - 1)}
    \cup {StrV(<<"x">>), NilV, NumV(32)}

\* More than 17 elements: the surplus is never read.
LongVec == ArrV(Append(VecWith({12}, NilV), NumV(32)))

VecInputs == WellFormedVecs \cup MalformedVecs \cup {LongVec}

SampleRows ==
  {ArrV(VecWith({12}, NilV)),
   ArrV(VecWith(NullablePositions, NilV)),
   ArrV(VecWith({}, SampleSensors)),
   ArrV(SubSeq(VecWith({12}, NilV), 1, 16)),
   ArrV([VecWith({12}, NilV) EXCEPT ![1] = NilV])}

RowLists == SeqsUpTo(SampleRows, MaxRows)

(***************************************************************************)
(* Specification of the decoder alone: a state vector or a list of rows is *)
(* drawn, and deserializeState or deserializeStates is applied to it.      *)
(***************************************************************************)
InitDecode ==
  /\ req = Nil
  /\ rawQuery = Unset
  /\ url = Unset
  /\ transport = Nil
  /\ decoded = FALSE
  /\ ret = Nil
  /\ out = Nil
  /\ \/ pc = "deserializeState" /\ vec \in {Ptr(v) : v \in VecInputs} /\ rawStates = Nil
     \/ pc = "deserializeStates" /\ vec = Nil /\ rawStates \in {Ptr(l) : l \in RowLists}

DeserializeState ==
  /\ pc = "deserializeState"
  /\ out' = Ptr(deserializeState(Deref(vec)))
  /\ pc' = "done"
  /\ UNCHANGED <<req, rawQuery, url, transport, decoded, ret, vec, rawStates>>

DeserializeStates ==
  /\ pc = "deserializeStates"
  /\ out' = Ptr(deserializeStates(Deref(rawStates)))
  /\ pc' = "done"
  /\ UNCHANGED <<req, rawQuery, url, transport, decoded, ret, vec, rawStates>>

NextDecode == DeserializeState \/ DeserializeStates

SpecDecode == InitDecode /\ [][NextDecode]_vars

(***************************************************************************)
(* api.Get.  The transport (http.Client.Get) is the environment: it either *)
(* fails, or delivers a response with a status code, a status text and a   *)
(* body.  A body is either not the JSON text of an object (json Decode     *)
(* returns an error) or the object it parses to.                           *)
(***************************************************************************)
Root ==
  <<"h", "t", "t", "p", "s", ":", "/", "/", "o", "p", "e", "n", "s", "k", "y", "-",
    "n", "e", "t", "w", "o", "r", "k", ".", "o", "r", "g", "/", "a", "p", "i">>

RECURSIVE JoinSlash(_)
JoinSlash(ps) ==
  IF ps = <<>> THEN <<>>
  ELSE IF Len(ps) = 1 THEN ps[1]
  ELSE ps[1] \o <<"/">> \o JoinSlash(Tail(ps))

\* The parsed URL: everything before the query, and the raw query.
endpointFor(path) == [base |-> JoinSlash(<<Root>> \o path), RawQuery |-> <<>>]

\* URL.String(): the query follows a "?" when it is not empty.
URLString(u) == IF u.RawQuery = <<>> THEN u.base ELSE u.base \o <<"?">> \o u.RawQuery

\* The URL of Get: lines 97-100.
GetURL(r) ==
  LET u == endpointFor(<< <<"s", "t", "a", "t", "e", "s">>, <<"a", "l", "l">> >>)
  IN IF r # Nil THEN [u EXCEPT !.RawQuery = serializeQueryParams(Deref(r))] ELSE u

\* raw[key] of a map[string]interface{}: nil for a missing key.
Lookup(raw, key) == IF key \in DOMAIN raw THEN raw[key] ELSE NilV

NoError == [kind |-> "none", msg |-> <<>>]

\* The status error with the URL short of its query.
StatusError_NoQuery(u, status) ==
  [kind |-> "status",
   msg  |-> <<"G", "E", "T", " ">> \o u.base
              \o <<" ", "n", "o", "t", " ", "O", "K", ":", " ">> \o status]

\* fmt.Errorf("GET %s not OK: %s", u.String(), res.Status)
StatusError(u, status) ==
  [kind |-> "status",
   msg  |-> <<"G", "E", "T", " ">> \o URLString(u)
              \o <<" ", "n", "o", "t", " ", "O", "K", ":", " ">> \o status]

TransportErr == [kind |-> "transport", msg |-> <<"d", "i", "a", "l">>]
JSONErr == [kind |-> "json", msg |-> <<"E", "O", "F">>]

\* What a call of Get comes to: the returned pair, or a panic.
Returned(resp, err) == [kind |-> "return", resp |-> resp, err |-> err]
Panicked == [kind |-> "panic", resp |-> Nil, err |-> NoError]

\* Lines 114-119, on the decoded body.
DecodeBody(raw) ==
  LET rows == AssertSlice(Lookup(raw, "states"))
      states == Bind(rows, deserializeStates)
      time == AssertFloat64(Lookup(raw, "time"))
  IN IF states.panic \/ time.panic THEN Panicked
     ELSE Returned(Ptr([Time |-> ToInt(Val(time)), States |-> Val(states)]), NoError)

(***************************************************************************)
(* Inputs of Get.                                                          *)
(***************************************************************************)
SampleBbox == [Lamin |-> F(32), Lomin |-> F(64), Lamax |-> F(96), Lomax |-> F(128)]

GetRequests ==
  {Nil} \cup
  {Ptr(r) : r \in [Time : {0, 7},
                   Icao24 : {NilSlice, Slice(<<>>), Slice(<< <<"a", "b", "c", "9", "f", "3">> >>)},
                   Bbox : {Nil, Ptr(SampleBbox)}]}

StatusOK == 200

Statuses ==
  {[code |-> 200, text |-> <<"2", "0", "0", " ", "O", "K">>],
   [code |-> 204, text |-> <<"2", "0", "4", " ", "N", "o", " ", "C", "o", "n", "t", "e", "n", "t">>],
   [code |-> 404, text |-> <<"4", "0", "4", " ", "N", "o", "t", " ", "F", "o", "u", "n", "d">>]}

TimeFields == {<<>>, <<NilV>>, <<NumV(48)>>, <<StrV(<<"x">>)>>}

StatesFields == {<<>>, <<NilV>>, <<StrV(<<"x">>)>>} \cup {<<ArrV(l)>> : l \in RowLists}

\* The object with the given fields; a field is absent (<<>>) or present.
Object(time, states) ==
  [k \in (IF time = <<>> THEN {} ELSE {"time"}) \cup (IF states = <<>> THEN {} ELSE {"states"})
     |-> IF k = "time" THEN time[1] ELSE states[1]]

Bodies ==
  {[valid |-> FALSE, raw |-> Object(<<>>, <<>>)]}
    \cup {[valid |-> TRUE, raw |-> Object(t, s)] : t \in TimeFields, s \in StatesFields}

TransportOutcomes ==
  {[failed |-> TRUE, StatusCode |-> 0, Status |-> <<>>, Body |-> [valid |-> FALSE, raw |-> Object(<<>>, <<>>)]]}
    \cup {[failed |-> FALSE, StatusCode |-> st.code, Status |-> st.text, Body |-> b] :
            st \in Statuses, b \in Bodies}

(***************************************************************************)
(* Specification of Get: a request and the behaviour of the transport are  *)
(* drawn.  Get blocks in a.Http.Get: GetSend is the call up to there, and  *)
(* each of the four other actions is the rest of the call on one outcome.  *)
(***************************************************************************)
Init ==
  /\ pc = "Get"
  /\ req \in GetRequests
  /\ transport \in {Ptr(o) : o \in TransportOutcomes}
  /\ rawQuery = Unset
  /\ url = Unset
  /\ decoded = FALSE
  /\ ret = Nil
  /\ vec = Nil
  /\ rawStates = Nil
  /\ out = Nil

\* Lines 97-102: the URL is built and handed to the transport.
GetSend ==
  /\ pc = "Get"
  /\ rawQuery' = GetURL(req).RawQuery
  /\ url' = URLString(GetURL(req))
  /\ pc' = "awaiting"
  /\ UNCHANGED <<req, transport, decoded, ret, vec, rawStates, out>>

\* Lines 103-105: the transport error is returned as it is.
GetTransportError ==
  /\ pc = "awaiting"
  /\ Deref(transport).failed
  /\ ret' = Ptr(Returned(Nil, TransportErr))
  /\ pc' = "returned"
  /\ UNCHANGED <<req, rawQuery, url, transport, decoded, vec, rawStates, out>>

\* Lines 106-108.
GetStatusNotOK ==
  /\ pc = "awaiting"
  /\ ~Deref(transport).failed
  /\ Deref(transport).StatusCode # StatusOK
  /\ ret' = Ptr(Returned(Nil, StatusError(GetURL(req), Deref(transport).Status)))
  /\ pc' = "returned"
  /\ UNCHANGED <<req, rawQuery, url, transport, decoded, vec, rawStates, out>>

\* Lines 110-113: the body does not decode.
GetDecodeError ==
  /\ pc = "awaiting"
  /\ ~Deref(transport).failed
  /\ Deref(transport).StatusCode = StatusOK
  /\ ~Deref(transport).Body.valid
  /\ decoded' = TRUE
  /\ ret' = Ptr(Returned(Nil, JSONErr))
  /\ pc' = "returned"
  /\ UNCHANGED <<req, rawQuery, url, transport, vec, rawStates, out>>

\* Lines 110-119: the body decodes, and is converted.
GetDecode ==
  /\ pc = "awaiting"
  /\ ~Deref(transport).failed
  /\ Deref(transport).StatusCode = StatusOK
  /\ Deref(transport).Body.valid
  /\ decoded' = TRUE
  /\ ret' = Ptr(DecodeBody(Deref(transport).Body.raw))
  /\ pc' = "returned"
  /\ UNCHANGED <<req, rawQuery, url, transport, vec, rawStates, out>>

Next == GetSend \/ GetTransportError \/ GetStatusNotOK \/ GetDecodeError \/ GetDecode

Spec == Init /\ [][Next]_vars

(***************************************************************************)
(* Reading a query string back, as a server does (url.ParseQuery): the     *)
(* parameters are the pieces between "&", a parameter is split at its      *)
(* first "=", and "+" and %XX are unescaped.                               *)
(***************************************************************************)
IndexOf(s, c) == IF \E i \in 1..Len(s) : s[i] = c
                 THEN CHOOSE i \in 1..Len(s) : s[i] = c /\ \A j \in 1..(i - 1) : s[j] # c
                 ELSE 0

RECURSIVE SplitOn(_, _)
SplitOn(s, c) ==
  LET i == IndexOf(s, c)
  IN IF i = 0 THEN <<s>>
     ELSE <<SubSeq(s, 1, i - 1)>> \o SplitOn(SubSeq(s, i + 1, Len(s)), c)

Params(q) == IF q = <<>> THEN <<>> ELSE SplitOn(q, "&")

ParamKey(p) == LET i == IndexOf(p, "=") IN IF i = 0 THEN p ELSE SubSeq(p, 1, i - 1)

ParamValue(p) == LET i == IndexOf(p, "=") IN IF i = 0 THEN <<>> ELSE SubSeq(p, i + 1, Len(p))

HexVal(c) == (CHOOSE i \in 1..16 : upperhex[i] = c) - 1

RECURSIVE Unescape(_)
Unescape(s) ==
  IF s = <<>> THEN <<>>
  ELSE IF s[1] = "%" /\ Len(s) >= 3
       THEN <<Ascii[16 * HexVal(s[2]) + HexVal(s[3]) - 31]>> \o Unescape(SubSeq(s, 4, Len(s)))
  ELSE IF s[1] = "+" THEN <<" ">> \o Unescape(Tail(s))
  ELSE <<s[1]>> \o Unescape(Tail(s))

HasKey(p, key) == Unescape(ParamKey(p)) = key

\* The values of the parameters named key, in the order of the query string.
QueryValues(q, key) ==
  LET ps == SelectSeq(Params(q), LAMBDA p : HasKey(p, key))
  IN [i \in 1..Len(ps) |-> Unescape(ParamValue(ps[i]))]

IsDigit(c) == \E i \in 1..10 : Digits[i] = c

DigitVal(c) == (CHOOSE i \in 1..10 : Digits[i] = c) - 1

IsDigits(s) == s # <<>> /\ \A i \in 1..Len(s) : IsDigit(s[i])

RECURSIVE DigitsValue(_)
DigitsValue(s) ==
  IF s = <<>> THEN 0 ELSE 10 * DigitsValue(SubSeq(s, 1, Len(s) - 1)) + DigitVal(s[Len(s)])

Unsigned(s) == IF s # <<>> /\ s[1] = "-" THEN Tail(s) ELSE s

Sign(s) == IF s # <<>> /\ s[1] = "-" THEN -1 ELSE 1

\* A decimal integer, with a "-" in front when negative.
IsInteger(s) == IsDigits(Unsigned(s))

IntegerValue(s) == Sign(s) * DigitsValue(Unsigned(s))

\* A fixed-point decimal with exactly 4 digits after the point.
IsFixed4(s) ==
  LET u == Unsigned(s)
      d == IndexOf(u, ".")
  IN /\ d > 1
     /\ Len(u) = d + 4
     /\ IsDigits(SubSeq(u, 1, d - 1))
     /\ IsDigits(SubSeq(u, d + 1, Len(u)))

\* The value of a fixed-point decimal of 4 fractional digits, in units of 1/10000.
Fixed4Value(s) ==
  LET u == Unsigned(s)
      d == IndexOf(u, ".")
  IN Sign(s) * (10000 * DigitsValue(SubSeq(u, 1, d - 1)) + DigitsValue(SubSeq(u, d + 1, Len(u))))

\* The text s is the value n/32 rounded to the nearest multiple of 1/10000.
IsRounded4(s, n) ==
  /\ IsFixed4(s)
  /\ Abs(32 * Fixed4Value(s) - 10000 * n) <= 16
  /\ (n < 0) = (Sign(s) = -1)

Contains(s, sub) == \E i \in 0..(Len(s) - Len(sub)) : SubSeq(s, i + 1, i + Len(sub)) = sub

QueryDone == pc = "done" /\ req # Nil /\ rawQuery # Unset

BboxKeys == {KeyLamin, KeyLomin, KeyLamax, KeyLomax}

BboxField(b, key) ==
  CASE key = KeyLamin -> b.Lamin
    [] key = KeyLomin -> b.Lomin
    [] key = KeyLamax -> b.Lamax
    [] key = KeyLomax -> b.Lomax

(***************************************************************************)
(* C7.  The query string carries one icao24 parameter per element of       *)
(* Icao24, duplicates included and in the order of the list, and none when *)
(* the list is empty or nil.                                               *)
(***************************************************************************)
C7_OneIcao24PerElement ==
  QueryDone => QueryValues(rawQuery, KeyIcao24) = Deref(req).Icao24.elems

C7_Witness ==
  /\ QueryDone
  /\ Len(Deref(req).Icao24.elems) >= 2
  /\ Deref(req).Icao24.elems[1] = Deref(req).Icao24.elems[2]
  /\ Len(QueryValues(rawQuery, KeyIcao24)) >= 2

(***************************************************************************)
(* C9.  The query string has the parameter time=<Time> exactly once when   *)
(* Time is not zero, negative values included, and no time parameter when  *)
(* Time is zero, whatever the Icao24 list and the Bbox are.                *)
(***************************************************************************)
C9_TimeExactlyOnce ==
  QueryDone =>
    LET ts == QueryValues(rawQuery, KeyTime)
    IN IF Deref(req).Time # 0
       THEN Len(ts) = 1 /\ IsInteger(ts[1]) /\ IntegerValue(ts[1]) = Deref(req).Time
       ELSE ts = <<>>

C9_Witness ==
  /\ QueryDone
  /\ Deref(req).Time < 0
  /\ Deref(req).Bbox # Nil
  /\ \E i \in 1..Len(Deref(req).Icao24.elems) : Contains(Deref(req).Icao24.elems[i], KeyTime)
  /\ Len(QueryValues(rawQuery, KeyTime)) = 1

(***************************************************************************)
(* C10, as stated.  With a Bbox the query string has each of lamin, lomin, *)
(* lamax and lomax exactly once, its value the bound of that name written  *)
(* as a fixed-point decimal with exactly 4 fractional digits; without a    *)
(* Bbox it has none of the four.                                           *)
(***************************************************************************)
C10_EveryBoundFixed4 ==
  QueryDone =>
    \A key \in BboxKeys :
      LET vs == QueryValues(rawQuery, key)
      IN IF Deref(req).Bbox = Nil THEN vs = <<>>
         ELSE Len(vs) = 1 /\ IsFixed4(vs[1])

(***************************************************************************)
(* C10, amended.  With a Bbox the query string has each of lamin, lomin,   *)
(* lamax and lomax exactly once; the value of a finite bound is that bound *)
(* rounded to exactly 4 fractional digits, whatever its magnitude, sign    *)
(* and relation to the other bounds, and a bound that is NaN or infinite   *)
(* is written NaN, +Inf or -Inf; without a Bbox the query string has none  *)
(* of the four.                                                            *)
(***************************************************************************)
C10_FiniteBoundFixed4 ==
  QueryDone =>
    \A key \in BboxKeys :
      LET vs == QueryValues(rawQuery, key)
      IN IF Deref(req).Bbox = Nil THEN vs = <<>>
         ELSE /\ Len(vs) = 1
              /\ LET f == BboxField(Deref(Deref(req).Bbox), key)
                 IN CASE f.c = "fin" -> IsRounded4(vs[1], f.n)
                      [] f.c = "nan" -> vs[1] = <<"N", "a", "N">>
                      [] f.c = "pinf" -> vs[1] = <<"+", "I", "n", "f">>
                      [] f.c = "ninf" -> vs[1] = <<"-", "I", "n", "f">>

C10_Witness ==
  /\ QueryDone
  /\ Deref(req).Bbox # Nil
  /\ Deref(Deref(req).Bbox).Lamin = F(48)
  /\ Deref(Deref(req).Bbox).Lomin = F(3)
  /\ Deref(Deref(req).Bbox).Lamax = F(-33)
  /\ Deref(Deref(req).Bbox).Lomax = NaN
  /\ QueryValues(rawQuery, KeyLamin) = << <<"1", ".", "5", "0", "0", "0">> >>
  /\ QueryValues(rawQuery, KeyLomin) = << <<"0", ".", "0", "9", "3", "8">> >>
  /\ QueryValues(rawQuery, KeyLamax) = << <<"-", "1", ".", "0", "3", "1", "2">> >>

(***************************************************************************)
(* Well-formed and malformed state vectors, and the State a well-formed    *)
(* vector stands for.                                                      *)
(***************************************************************************)
\* The JSON type expected at each zero-based position.
PositionType(p) ==
  CASE p \in {0, 1, 2, 14} -> "string"
    [] p \in {8, 15} -> "bool"
    [] p = 12 -> "slice"
    [] OTHER -> "float64"

IsNumberArray(x) == x.t = "slice" /\ \A i \in 1..Len(x.a) : x.a[i].t = "float64"

\* A value that a parsed JSON body may hold at position p of a well-formed row.
PositionOK(x, p) ==
  \/ p \in NullablePositions /\ x.t = "nil"
  \/ p # 12 /\ x.t = PositionType(p)
  \/ p = 12 /\ IsNumberArray(x)

WellFormedRow(row) ==
  /\ row.t = "slice"
  /\ Len(row.a) = VecLen
  /\ \A p \in 0..(VecLen - 1) : PositionOK(row.a[p + 1], p)

\* Fewer than 17 elements, or a null or wrong-typed value at a position that
\* must be present.
MalformedRow(row) ==
  \/ row.t # "slice"
  \/ Len(row.a) < VecLen
  \/ \E p \in RequiredPositions : row.a[p + 1].t # PositionType(p)

Integers(x) == [i \in 1..Len(x.a) |-> ToInt(x.a[i].f)]

ExpectedState(row) ==
  LET v == row.a
  IN [Icao24         |-> v[1].s,
      Callsign       |-> v[2].s,
      OriginCountry  |-> v[3].s,
      TimePosition   |-> ToInt(v[4].f),
      LastContact    |-> ToInt(v[5].f),
      Longitude      |-> v[6].f,
      Latitude       |-> v[7].f,
      BaroAltitude   |-> v[8].f,
      OnGround       |-> v[9].b,
      Velocity       |-> v[10].f,
      TrueTrack      |-> v[11].f,
      VerticalRate   |-> v[12].f,
      Sensors        |-> Integers(v[13]),
      GeoAltitude    |-> v[14].f,
      Squawk         |-> v[15].s,
      Spi            |-> v[16].b,
      PositionSource |-> ToInt(v[17].f)]

StateDone == pc = "done" /\ vec # Nil /\ out # Nil

StatesDone == pc = "done" /\ rawStates # Nil /\ out # Nil

(***************************************************************************)
(* C2.  A well-formed state vector from a parsed body whose sensors field  *)
(* is an array of integers decodes to a State whose Sensors are those      *)
(* integers in the same order.                                             *)
(***************************************************************************)
C2_SensorsKept ==
  (StateDone /\ WellFormedRow(Deref(vec)) /\ Deref(vec).a[13].t = "slice") =>
    /\ ~Deref(out).panic
    /\ Val(Deref(out)).Sensors = Integers(Deref(vec).a[13])

(***************************************************************************)
(* C3.  A well-formed state vector, whichever of its nullable positions    *)
(* are null, decodes to the State that has the zero value at each null     *)
(* position and the value of the position everywhere else.                 *)
(***************************************************************************)
C3_NullsToZeroValues ==
  (StateDone /\ WellFormedRow(Deref(vec))) =>
    Deref(out) = Ok(ExpectedState(Deref(vec)))

(***************************************************************************)
(* C4.  A states array of well-formed rows decodes without a fault to one  *)
(* State per row, the i-th State being the decoding of the i-th row.       *)
(***************************************************************************)
C4_OneStatePerRow ==
  (StatesDone /\ \A i \in 1..Len(Deref(rawStates)) : WellFormedRow(Deref(rawStates)[i])) =>
    /\ ~Deref(out).panic
    /\ Len(Val(Deref(out))) = Len(Deref(rawStates))
    /\ \A i \in 1..Len(Deref(rawStates)) :
         Val(Deref(out))[i] = ExpectedState(Deref(rawStates)[i])

(***************************************************************************)
(* Get.                                                                    *)
(***************************************************************************)
GetReturned == pc = "returned" /\ ret # Nil

Delivered == transport # Nil /\ ~Deref(transport).failed

BodyDecodes == Delivered /\ Deref(transport).StatusCode = StatusOK /\ Deref(transport).Body.valid

BodyField(key) == Lookup(Deref(transport).Body.raw, key)

(***************************************************************************)
(* C1.  When the decoded body has a null or absent states field and a      *)
(* numeric time, Get returns a Response with no states and that time, and  *)
(* no error.                                                               *)
(***************************************************************************)
C1_NullStatesEmptyResponse ==
  (GetReturned /\ BodyDecodes /\ BodyField("states").t = "nil" /\ BodyField("time").t = "float64") =>
    Deref(ret) = Returned(Ptr([Time |-> ToInt(BodyField("time").f), States |-> <<>>]), NoError)

(***************************************************************************)
(* C6.  When a row of the states array is malformed, Get returns a decode  *)
(* error and no Response.                                                  *)
(***************************************************************************)
C6_MalformedRowDecodeError ==
  (GetReturned /\ BodyDecodes /\ BodyField("time").t = "float64"
     /\ BodyField("states").t = "slice"
     /\ \E i \in 1..Len(BodyField("states").a) : MalformedRow(BodyField("states").a[i])) =>
    /\ Deref(ret).kind = "return"
    /\ Deref(ret).resp = Nil
    /\ Deref(ret).err.kind = "json"

(***************************************************************************)
(* C5.  When the response has a status code other than 200, Get returns no *)
(* Response and an error whose message carries the requested URL, encoded  *)
(* query string included, and the status text; the body is not decoded.    *)
(***************************************************************************)
C5_StatusError ==
  (GetReturned /\ Delivered /\ Deref(transport).StatusCode # 200) =>
    /\ Deref(ret).kind = "return"
    /\ Deref(ret).resp = Nil
    /\ Deref(ret).err.kind = "status"
    /\ Contains(Deref(ret).err.msg, url)
    /\ (rawQuery # <<>> => Contains(Deref(ret).err.msg, <<"?">> \o rawQuery))
    /\ Contains(Deref(ret).err.msg, Deref(transport).Status)
    /\ ~decoded

C5_Witness ==
  /\ GetReturned
  /\ Delivered
  /\ Deref(transport).StatusCode = 404
  /\ Deref(transport).Body.valid
  /\ req # Nil
  /\ Deref(req).Time = 7
  /\ Deref(req).Bbox # Nil
  /\ Contains(url, <<"?">>)
  /\ Deref(ret).err.kind = "status"

(***************************************************************************)
(* C8.  For an absent Request, and for a Request with Time zero, no Icao24 *)
(* entries and no Bbox, the URL that Get requests has no query string: it  *)
(* is the same URL in both cases.                                          *)
(***************************************************************************)
PlainURL == Root \o <<"/", "s", "t", "a", "t", "e", "s", "/", "a", "l", "l">>

IsUnfiltered(r) ==
  r = Nil \/ (Deref(r).Time = 0 /\ Deref(r).Icao24.elems = <<>> /\ Deref(r).Bbox = Nil)

C8_UnfilteredURL ==
  (pc \in {"awaiting", "returned"} /\ IsUnfiltered(req)) =>
    /\ rawQuery = <<>>
    /\ url = PlainURL

C8_Witness ==
  /\ pc = "awaiting"
  /\ req # Nil
  /\ IsUnfiltered(req)
  /\ ~Deref(req).Icao24.isNil
  /\ url = PlainURL

====
